---- MODULE Spec2Model ----
(***************************************************************************)
(* A model of gedcomtopdf (src/src/gedcomtopdf.py): the roster assembler   *)
(* Tree.build_individuals with the Individual cache, the date resolver     *)
(* Date.date with format_date, the layout function place_image, the line   *)
(* reassembly of Tree.read and the composer tree_to_html / images_to_html. *)
(*                                                                         *)
(* Strings are sequences of character codes (ASCII), so that Python's      *)
(* string comparison, formatting and regular expressions are computed on   *)
(* characters.  None is modelled by 0 for a serial / a cache slot and by   *)
(* the empty sequence for an absent (falsy) string.                        *)
(***************************************************************************)
EXTENDS Integers, Sequences, FiniteSets, TLC

VARIABLES
  \* ---- Tree (roster assembler, Individual cache)
  nodes,             \* the INDI records of the parsed file, in file order
  fams,              \* the FAM records of the parsed file
  individual_cache,  \* Tree.individual_cache: identifier -> object (0 = absent)
  heap,              \* the Individual objects created so far
  individuals,       \* Tree.individuals, the roster (object references)
  tpc,               \* "new" | "done" | "TypeError"
  ret,               \* the last lookup / traversal and the objects it returned
  \* ---- Date.date / format_date
  raw,               \* Date.value, the raw DATE string
  dres,              \* result of Date.date
  fres,              \* result of format_date
  dpc,               \* "new" | "parsed" | "formatted"
  \* ---- place_image
  dims,              \* <<width, height, max_width, max_height>>
  placed,            \* result of place_image
  ppc,               \* "new" | "done"
  \* ---- Tree.read
  file,              \* file.readlines()
  pos,               \* number of lines consumed by the loop
  block,             \* the block being collected
  lines,             \* the flushed logical entries
  text,              \* the text handed to the record parser
  rpc,               \* "loop" | "done"
  \* ---- tree_to_html / images_to_html
  croster,           \* the roster the composer walks
  cpc,               \* "summaries" | "images" | "done" | "aborted"
  ci,                \* index of the individual being composed
  cj,                \* index of the image being composed
  summ,              \* summary blocks produced (roster positions)
  pages,             \* page blocks produced (image serials), per finished call
  cur                \* `lines` of the running images_to_html call

treeVars == <<nodes, fams, individual_cache, heap, individuals, tpc, ret>>
dateVars == <<raw, dres, fres, dpc>>
placeVars == <<dims, placed, ppc>>
readVars == <<file, pos, block, lines, text, rpc>>
composeVars == <<croster, cpc, ci, cj, summ, pages, cur>>
vars == <<treeVars, dateVars, placeVars, readVars, composeVars>>

\* Each specification below runs one component; the others stay idle.
NoRet == [op |-> "none", refs |-> <<>>]
IdleTree ==
  /\ nodes = <<>> /\ fams = <<>> /\ individual_cache = <<>> /\ heap = <<>>
  /\ individuals = <<>> /\ tpc = "idle" /\ ret = NoRet
IdleDate == raw = <<>> /\ dres = <<>> /\ fres = <<>> /\ dpc = "idle"
IdlePlace == dims = <<>> /\ placed = <<>> /\ ppc = "idle"
IdleRead ==
  /\ file = <<>> /\ pos = 0 /\ block = <<>> /\ lines = <<>> /\ text = <<>>
  /\ rpc = "idle"
IdleCompose ==
  /\ croster = <<>> /\ cpc = "idle" /\ ci = 0 /\ cj = 0 /\ summ = <<>>
  /\ pages = <<>> /\ cur = <<>>

----------------------------------------------------------------------------
\* Bounds of the model.
MaxIndis == 3
MaxHeap == 5

----------------------------------------------------------------------------
\* Characters (ASCII codes) and strings.
SP == 32
LPAR == 40
RPAR == 41
DOT == 46
ChA == 65
ChB == 66
ChC == 67
Chf == 102

\* Python's str `<`: lexicographic on code points, a proper prefix is smaller.
StrLess(a, b) ==
  \E k \in 1..Len(b) :
    /\ \A j \in 1..(k - 1) : j <= Len(a) /\ a[j] = b[j]
    /\ \/ k = Len(a) + 1
       \/ k <= Len(a) /\ a[k] < b[k]

\* datetime.date `<`: (year, month, day) in order.
DateLess(a, b) ==
  \/ a[1] < b[1]
  \/ a[1] = b[1] /\ a[2] < b[2]
  \/ a[1] = b[1] /\ a[2] = b[2] /\ a[3] < b[3]

----------------------------------------------------------------------------
\* Name

last_name(name) == IF name.maiden /= <<>> THEN name.maiden ELSE name.surname

\* Name.__str__
NameStr(name) ==
  IF name.maiden /= <<>>
    THEN name.given \o <<SP>> \o name.maiden \o <<SP, LPAR, Chf, DOT, SP>>
           \o name.surname \o <<RPAR>>
    ELSE name.given \o <<SP>> \o name.surname

----------------------------------------------------------------------------
\* Individual

\* Individual.build_images: the OBJE nodes that have a title, serial None.
build_images(node) ==
  LET RECURSIVE Keep(_)
      Keep(k) ==
        IF k > Len(node.obje) THEN <<>>
        ELSE (IF node.obje[k] THEN <<[obje |-> k, serial |-> 0]>> ELSE <<>>)
               \o Keep(k + 1)
  IN Keep(1)

\* Individual.__init__
NewIndividual(id) ==
  [id |-> id, serial |-> 0, images |-> build_images(nodes[id])]

\* individual_by_id without line 251: the new object is never stored.
individual_by_id_unstored(c, h, id) ==
  IF c[id] /= 0
    THEN [cache |-> c, heap |-> h, ref |-> c[id]]
    ELSE [cache |-> c, heap |-> Append(h, NewIndividual(id)), ref |-> Len(h) + 1]

\* Tree.individual_by_id on cache c and heap h: the new cache, heap and the
\* object returned.
individual_by_id(c, h, id) ==
  IF c[id] /= 0
    THEN [cache |-> c, heap |-> h, ref |-> c[id]]
    ELSE [cache |-> [c EXCEPT ![id] = Len(h) + 1],
          heap |-> Append(h, NewIndividual(id)),
          ref |-> Len(h) + 1]

\* datetime.date(year=1, month=1, day=1)
SentinelDate == <<1, 1, 1>>

\* The date component of the sort key (build_individuals, lines 224-228): the
\* parsed birth date, or the sentinel when the record has no BIRT (<<>>).
KeyDate(node) ==
  IF node.birth = <<>> THEN SentinelDate
  ELSE node.birth

SortKey(node) ==
  [last |-> last_name(node.name), full |-> NameStr(node.name), date |-> KeyDate(node)]

\* `p < q` on the pairs (key, indiv) that sorted() compares: "lt", "ge", or
\* "TypeError" when the keys are equal and the tuple comparison falls through to
\* the two Individual objects, which define no order.
PairLess(p, q) ==
  IF p.key.last /= q.key.last
    THEN (IF StrLess(p.key.last, q.key.last) THEN "lt" ELSE "ge")
  ELSE IF p.key.full /= q.key.full
    THEN (IF StrLess(p.key.full, q.key.full) THEN "lt" ELSE "ge")
  ELSE IF p.key.date /= q.key.date
    THEN (IF DateLess(p.key.date, q.key.date) THEN "lt" ELSE "ge")
  ELSE IF p.indiv = q.indiv THEN "ge"
  ELSE "TypeError"

\* Insert x into the sorted sequence s, scanning from the right as an insertion
\* sort does; ok = FALSE when a comparison raises.
RECURSIVE Insert(_, _, _)
Insert(x, s, k) ==
  IF k = 0 THEN [ok |-> TRUE, seq |-> <<x>> \o s]
  ELSE LET c == PairLess(x, s[k]) IN
    IF c = "TypeError" THEN [ok |-> FALSE, seq |-> <<>>]
    ELSE IF c = "lt" THEN Insert(x, s, k - 1)
    ELSE [ok |-> TRUE, seq |-> SubSeq(s, 1, k) \o <<x>> \o SubSeq(s, k + 1, Len(s))]

\* build_individuals without line 230: the pairs stay in file order.
SortedSkipped(pairs) == [ok |-> TRUE, seq |-> pairs]

\* sorted(pairs); ok = FALSE when it raises TypeError.
RECURSIVE Sorted(_)
Sorted(pairs) ==
  IF pairs = <<>> THEN [ok |-> TRUE, seq |-> <<>>]
  ELSE LET n == Len(pairs)
           s == Sorted(SubSeq(pairs, 1, n - 1))
       IN IF ~s.ok THEN s ELSE Insert(pairs[n], s.seq, Len(s.seq))

\* The loop of lines 221-229: one individual_by_id call and one pair per record.
RECURSIVE BuildPairs(_)
BuildPairs(n) ==
  IF n = 0
    THEN [cache |-> [id \in 1..Len(nodes) |-> 0], heap |-> <<>>, pairs |-> <<>>]
    ELSE LET b == BuildPairs(n - 1)
             r == individual_by_id(b.cache, b.heap, n)
         IN [cache |-> r.cache, heap |-> r.heap,
             pairs |-> Append(b.pairs, [key |-> SortKey(nodes[n]), indiv |-> r.ref])]

\* str(entry.name) of the object o of heap h.
NameOf(h, o) == NameStr(nodes[h[o].id].name)

\* names[str(entry.name)] of lines 232-234: the roster entries of that name, in
\* roster order.
NameGroup(h, result, nm) == SelectSeq(result, LAMBDA o : NameOf(h, o) = nm)

\* Position of o in the sequence s (first occurrence).
IndexIn(s, o) == CHOOSE i \in 1..Len(s) : s[i] = o /\ \A j \in 1..(i - 1) : s[j] /= o

\* Lines 235-239 without the `len(entries) == 1` test.
SerialOfEveryGroup(h, result, o) ==
  IndexIn(NameGroup(h, result, NameOf(h, o)), o)

\* Lines 235-239: the serial an entry ends with.
SerialOf(h, result, o) ==
  LET entries == NameGroup(h, result, NameOf(h, o))
  IN IF Len(entries) = 1 THEN h[o].serial ELSE IndexIn(entries, o)

\* Lines 240-244 with next_serial reset for every entry.
NextSerialAtReset(h, result, p) == 1

\* Lines 240-244: next_serial when the walk reaches roster position p.
RECURSIVE NextSerialAt(_, _, _)
NextSerialAt(h, result, p) ==
  IF p = 1 THEN 1
  ELSE NextSerialAt(h, result, p - 1) + Len(h[result[p - 1]].images)

ImageSerials(h, result, p) ==
  LET o == result[p]
      first == NextSerialAt(h, result, p)
  IN [j \in 1..Len(h[o].images) |-> [h[o].images[j] EXCEPT !.serial = first + j - 1]]

\* The heap after lines 232-244.
Finalize(h, result) ==
  [o \in 1..Len(h) |->
     IF \E p \in 1..Len(result) : result[p] = o
       THEN [h[o] EXCEPT !.serial = SerialOf(h, result, o),
                         !.images = ImageSerials(h, result, IndexIn(result, o))]
       ELSE h[o]]

----------------------------------------------------------------------------
\* Inputs of the Tree specifications.
Names ==
  { [given |-> <<ChA>>, surname |-> <<ChC>>, maiden |-> <<ChB>>],
    [given |-> <<ChA, SP, ChB>>, surname |-> <<ChC>>, maiden |-> <<>>],
    [given |-> <<ChA>>, surname |-> <<ChB, SP, ChC>>, maiden |-> <<>>] }
\* No BIRT (<<>>), or a BIRT whose DATE is well formed: birth.date of the record.
Births == { <<>>, <<1900, 6, 15>>, <<1950, 1, 1>> }
\* The OBJE children of a record: TRUE where the OBJE has a TITL.
Objes == { <<>>, <<FALSE, TRUE, TRUE>> }
NodeSet == [name : Names, birth : Births, obje : Objes]

InitTree ==
  /\ \E n \in 1..MaxIndis : nodes \in [1..n -> NodeSet]
  /\ fams = <<>>
  /\ individual_cache = [id \in 1..Len(nodes) |-> 0]
  /\ heap = <<>>
  /\ individuals = <<>>
  /\ tpc = "new"
  /\ ret = NoRet
  /\ IdleDate /\ IdlePlace /\ IdleRead /\ IdleCompose

\* Tree.build_individuals, called by Tree.__init__.
BuildIndividuals ==
  /\ tpc = "new"
  /\ LET b == BuildPairs(Len(nodes))
         s == Sorted(b.pairs)
         result == [p \in 1..Len(s.seq) |-> s.seq[p].indiv]
     IN /\ individual_cache' = b.cache
        /\ IF s.ok
             THEN /\ heap' = Finalize(b.heap, result)
                  /\ individuals' = result
                  /\ tpc' = "done"
             ELSE /\ heap' = b.heap
                  /\ individuals' = <<>>
                  /\ tpc' = "TypeError"
  /\ UNCHANGED <<nodes, fams, ret, dateVars, placeVars, readVars, composeVars>>

NextTree == BuildIndividuals

SpecTree == InitTree /\ [][NextTree]_vars

----------------------------------------------------------------------------
\* Lookups and relationship traversal on a constructed Tree.

\* individual_by_id for each identifier of ids in turn.
RECURSIVE LookupAll(_, _, _)
LookupAll(c, h, ids) ==
  IF ids = <<>> THEN [cache |-> c, heap |-> h, refs |-> <<>>]
  ELSE LET n == Len(ids)
           b == LookupAll(c, h, SubSeq(ids, 1, n - 1))
           r == individual_by_id(b.cache, b.heap, ids[n])
       IN [cache |-> r.cache, heap |-> r.heap, refs |-> Append(b.refs, r.ref)]

InSeq(x, s) == \E k \in 1..Len(s) : s[k] = x

\* Individual.children: the CHIL identifiers of the families the individual
\* names in a FAMS link and is a partner of, in order.
RECURSIVE ChildIds(_, _)
ChildIds(id, k) ==
  IF k = 0 THEN <<>>
  ELSE ChildIds(id, k - 1) \o
       (IF id \in fams[k].fams /\ InSeq(id, fams[k].partners)
          THEN fams[k].chil ELSE <<>>)

\* self.node.parents: the partners of the families that list the individual as
\* a child.
RECURSIVE ParentIds(_, _)
ParentIds(id, k) ==
  IF k = 0 THEN <<>>
  ELSE ParentIds(id, k - 1) \o
       (IF InSeq(id, fams[k].chil) THEN fams[k].partners ELSE <<>>)

\* The FAM records of the inputs: partners, the individuals whose FAMS names the
\* family, and the children.
FamSet(n) ==
  { <<[partners |-> <<1>>, fams |-> {1}, chil |-> SelectSeq(<<2, 3>>, LAMBDA c : c <= n)]>>,
    <<[partners |-> <<1>>, fams |-> {1, n}, chil |-> <<n>>],
      [partners |-> <<n>>, fams |-> {n}, chil |-> <<1, 1>>]>> }

CacheNodeSet ==
  [name : {nm \in Names : nm.maiden = <<>>}, birth : {<<>>, <<1900, 6, 15>>},
   obje : {<<>>}]

InitCache ==
  /\ \E n \in 2..MaxIndis :
       /\ nodes \in [1..n -> CacheNodeSet]
       /\ fams \in FamSet(n)
  /\ individual_cache = [id \in 1..Len(nodes) |-> 0]
  /\ heap = <<>>
  /\ individuals = <<>>
  /\ tpc = "new"
  /\ ret = NoRet
  /\ IdleDate /\ IdlePlace /\ IdleRead /\ IdleCompose

Traverse(op, ids) ==
  /\ tpc = "done"
  /\ Len(heap) + Len(ids) <= MaxHeap
  /\ LET r == LookupAll(individual_cache, heap, ids)
     IN /\ individual_cache' = r.cache
        /\ heap' = r.heap
        /\ ret' = [op |-> op, refs |-> r.refs]
  /\ UNCHANGED <<nodes, fams, individuals, tpc, dateVars, placeVars, readVars,
                 composeVars>>

\* tree.individual_by_id(id)
Lookup == \E id \in 1..Len(nodes) : Traverse("individual_by_id", <<id>>)

\* individual.children, for an individual of the roster
Children == \E p \in 1..Len(individuals) :
  Traverse("children", ChildIds(heap[individuals[p]].id, Len(fams)))

\* individual.parents, for an individual of the roster
Parents == \E p \in 1..Len(individuals) :
  Traverse("parents", ParentIds(heap[individuals[p]].id, Len(fams)))

NextCache == BuildIndividuals \/ Lookup \/ Children \/ Parents

SpecCache == InitCache /\ [][NextCache]_vars

----------------------------------------------------------------------------
\* Properties of the roster (SpecTree).

Built == tpc = "done"
RosterNode(p) == nodes[heap[individuals[p]].id]
RosterKey(p) == SortKey(RosterNode(p))

\* The lexicographic order of the sort keys (last name, full name, birth date or
\* sentinel).
KeyLT(a, b) ==
  \/ StrLess(a.last, b.last)
  \/ a.last = b.last /\ StrLess(a.full, b.full)
  \/ a.last = b.last /\ a.full = b.full /\ DateLess(a.date, b.date)

\* C1: after build_individuals the roster holds every individual record exactly
\* once, and an individual whose key is smaller precedes one whose key is larger.
C1_RosterOrdered ==
  Built =>
    /\ Len(individuals) = Len(nodes)
    /\ \A id \in 1..Len(nodes) :
         Cardinality({p \in 1..Len(individuals) : heap[individuals[p]].id = id}) = 1
    /\ \A p, q \in 1..Len(individuals) :
         KeyLT(RosterKey(p), RosterKey(q)) => p < q

\* A roster of three whose order differs from the file order.
C1_Witness ==
  /\ Built
  /\ Len(individuals) = 3
  /\ heap[individuals[1]].id = 3
  /\ heap[individuals[2]].id = 1

\* The roster positions whose rendered full name is that of position p.
SameName(p) ==
  {q \in 1..Len(individuals) : NameStr(RosterNode(q).name) = NameStr(RosterNode(p).name)}

\* C2: individuals sharing a rendered full name carry the serials 1..k in roster
\* order; an individual whose rendered name is unique carries no serial.
C2_Serials ==
  Built =>
    \A p \in 1..Len(individuals) :
      heap[individuals[p]].serial =
        IF Cardinality(SameName(p)) = 1 THEN 0
        ELSE Cardinality({q \in SameName(p) : q <= p})

\* Two individuals of one rendered name got serials 1 and 2, a third none.
C2_Witness ==
  /\ Built
  /\ Len(individuals) = 3
  /\ \E p, q, r \in 1..3 :
       /\ heap[individuals[p]].serial = 1
       /\ heap[individuals[q]].serial = 2
       /\ heap[individuals[r]].serial = 0

\* The image serials read in roster order, then in each individual's image order.
RECURSIVE SerialsUpTo(_)
SerialsUpTo(p) ==
  IF p = 0 THEN <<>>
  ELSE SerialsUpTo(p - 1) \o
       [j \in 1..Len(heap[individuals[p]].images) |-> heap[individuals[p]].images[j].serial]

\* C3: read in roster order and image order, the image serials are 1, 2, ..., N.
C3_ImageSerials ==
  Built =>
    LET all == SerialsUpTo(Len(individuals))
    IN \A k \in 1..Len(all) : all[k] = k

\* Two individuals of the roster carry images, numbered 1..4.
C3_Witness ==
  /\ Built
  /\ Len(SerialsUpTo(Len(individuals))) = 4
  /\ Len(heap[individuals[1]].images) = 0
  /\ heap[individuals[3]].images[2].serial = 4

\* Two records of the input have equal sort keys.
EqualKeys == \E i, j \in 1..Len(nodes) : i < j /\ SortKey(nodes[i]) = SortKey(nodes[j])

\* C4: with equal sort keys in the input, build_individuals completes and the
\* individuals of equal key stand in the roster in their input order.
C4_TiesKeepInputOrder ==
  (tpc /= "new" /\ EqualKeys) =>
    /\ Built
    /\ \A p, q \in 1..Len(individuals) :
         (RosterKey(p) = RosterKey(q) /\ heap[individuals[p]].id < heap[individuals[q]].id)
           => p < q

----------------------------------------------------------------------------
\* Properties of the Individual cache (SpecCache).

\* C10: after any lookups and traversals there is one Individual per identifier,
\* every lookup returns the object the roster holds for that identifier, and so
\* the serial seen through a link is the serial seen in the roster.
C10_OneObjectPerId ==
  Built =>
    /\ \A o1, o2 \in 1..Len(heap) : heap[o1].id = heap[o2].id => o1 = o2
    /\ \A id \in 1..Len(nodes) : individual_cache[id] /= 0
    /\ \A k \in 1..Len(ret.refs) :
         \E p \in 1..Len(individuals) :
           /\ individuals[p] = ret.refs[k]
           /\ individual_cache[heap[ret.refs[k]].id] = ret.refs[k]

\* A children traversal returned an individual that carries a serial.
C10_Witness ==
  /\ Built
  /\ ret.op = "children"
  /\ Len(ret.refs) = 2
  /\ heap[ret.refs[1]].serial = 2

----------------------------------------------------------------------------
\* Date

IsDigit(c) == c \in 48..57
IsUpper(c) == c \in 65..90
\* \s on the characters of the inputs: space and tab.
IsSpace(c) == c \in {32, 9}

\* s[from..to] consists of digits / capitals / white space.
AllDigits(s, from, to) == \A k \in from..to : IsDigit(s[k])
AllUpper(s, from, to) == \A k \in from..to : IsUpper(s[k])
AllSpace(s, from, to) == \A k \in from..to : IsSpace(s[k])

\* Whether FORMAT matches s with a day group of dl characters (0 = the group did
\* not take part) and a month group of ml characters, k1 white-space characters
\* before the month position.
MatchesWith(s, dl, ml, k1) ==
  LET k2 == Len(s) - dl - k1 - ml - 4
  IN /\ k2 >= 0
     /\ AllDigits(s, 1, dl)
     /\ AllSpace(s, dl + 1, dl + k1)
     /\ AllUpper(s, dl + k1 + 1, dl + k1 + ml)
     /\ AllSpace(s, dl + k1 + ml + 1, dl + k1 + ml + k2)
     /\ AllDigits(s, Len(s) - 3, Len(s))

\* The alternatives of the optional groups in the order the backtracking matcher
\* tries them: the greedy \d{1,2} takes two digits, then one, then the group is
\* skipped; the month group is tried before it is skipped.
Alternatives == << <<2, 3>>, <<2, 0>>, <<1, 3>>, <<1, 0>>, <<0, 3>>, <<0, 0>> >>

AltMatches(s, a) ==
  \E k1 \in 0..Len(s) : MatchesWith(s, Alternatives[a][1], Alternatives[a][2], k1)

\* Date.FORMAT.match(s): the groups day, month, year (<<>> for a group that did
\* not take part, which is falsy like None).
FormatMatch(s) ==
  IF \E a \in 1..Len(Alternatives) : AltMatches(s, a)
    THEN LET a == CHOOSE a \in 1..Len(Alternatives) :
                    AltMatches(s, a) /\ \A b \in 1..(a - 1) : ~AltMatches(s, b)
             dl == Alternatives[a][1]
             ml == Alternatives[a][2]
             k1 == CHOOSE k \in 0..Len(s) : MatchesWith(s, dl, ml, k)
         IN [matched |-> TRUE,
             day |-> SubSeq(s, 1, dl),
             month |-> SubSeq(s, dl + k1 + 1, dl + k1 + ml),
             year |-> SubSeq(s, Len(s) - 3, Len(s))]
    ELSE [matched |-> FALSE, day |-> <<>>, month |-> <<>>, year |-> <<>>]

\* Date.MONTHS: JAN FEB MAR APR MAY JUN JUL AUG SEP OCT NOV DEC
MONTHS ==
  << <<74, 65, 78>>,
     <<70, 69, 66>>,
     <<77, 65, 82>>,
     <<65, 80, 82>>,
     <<77, 65, 89>>,
     <<74, 85, 78>>,
     <<74, 85, 76>>,
     <<65, 85, 71>>,
     <<83, 69, 80>>,
     <<79, 67, 84>>,
     <<78, 79, 86>>,
     <<68, 69, 67>> >>

\* int(s) of a string of digits
RECURSIVE ToInt(_)
ToInt(s) ==
  IF s = <<>> THEN 0
  ELSE 10 * ToInt(SubSeq(s, 1, Len(s) - 1)) + (s[Len(s)] - 48)

\* str(n) of a natural number
RECURSIVE ToStr(_)
ToStr(n) ==
  IF n < 10 THEN <<48 + n>> ELSE ToStr(n \div 10) \o <<48 + (n % 10)>>

IsLeap(y) == y % 4 = 0 /\ (y % 100 /= 0 \/ y % 400 = 0)
DaysIn(y, m) ==
  IF m = 2 THEN (IF IsLeap(y) THEN 29 ELSE 28)
  ELSE IF m \in {4, 6, 9, 11} THEN 30 ELSE 31

NoDate == <<0, 0, 0>>

\* datetime.date(year, month, day): ValueError outside the calendar.
MakeDate(y, m, d) ==
  IF y \in 1..9999 /\ m \in 1..12 /\ d \in 1..DaysIn(y, m)
    THEN [kind |-> "date", ymd |-> <<y, m, d>>]
    ELSE [kind |-> "ValueError", ymd |-> NoDate]

\* Date.date for the raw value `value` (<<>>: no DATE, or an empty one).
DateOf(value) ==
  LET match == FormatMatch(value) IN
  IF value = <<>> THEN [kind |-> "None", ymd |-> NoDate]
  ELSE IF ~match.matched THEN [kind |-> "AssertionError", ymd |-> NoDate]
  ELSE IF match.day /= <<>> /\ match.month /= <<>>
    THEN (IF \E i \in 1..Len(MONTHS) : MONTHS[i] = match.month
            THEN MakeDate(ToInt(match.year),
                          CHOOSE i \in 1..Len(MONTHS) : MONTHS[i] = match.month,
                          ToInt(match.day))
            ELSE [kind |-> "ValueError", ymd |-> NoDate])
  ELSE IF match.year /= <<>> THEN MakeDate(ToInt(match.year), 1, 1)
  ELSE [kind |-> "None", ymd |-> NoDate]

\* format_date(d) for a Date d of raw value `value`: the empty string, the bare
\* year, or the text babel.dates.format_date gives for the date; an exception of
\* d.date propagates.
format_date(value) ==
  LET d == DateOf(value) IN
  IF d.kind \in {"AssertionError", "ValueError"}
    THEN [kind |-> d.kind, text |-> <<>>, ymd |-> NoDate]
  ELSE IF d.kind = "None" THEN [kind |-> "empty", text |-> <<>>, ymd |-> NoDate]
  ELSE IF d.ymd[2] = 1 /\ d.ymd[3] = 1
    THEN [kind |-> "year", text |-> ToStr(d.ymd[1]), ymd |-> NoDate]
  ELSE [kind |-> "babel", text |-> <<>>, ymd |-> d.ymd]

\* The raw DATE values of the inputs: an optional day, white space, an optional
\* month, white space, a year.
DayParts == { <<>>, <<49>>, <<49, 53>>, <<51, 49>> }
MonthParts == { <<>>, <<74, 65, 78>>, <<70, 69, 66>>, <<88, 89, 90>> }
GapParts == { <<>>, <<32>> }
YearParts == { <<49, 57, 56, 52>>, <<56, 52>> }
RawDates ==
  { <<>> } \cup
  { d \o g1 \o m \o g2 \o y :
      d \in DayParts, g1 \in GapParts, m \in MonthParts, g2 \in GapParts, y \in YearParts }

InitDate ==
  /\ raw \in RawDates
  /\ dres = <<>>
  /\ fres = <<>>
  /\ dpc = "new"
  /\ IdleTree /\ IdlePlace /\ IdleRead /\ IdleCompose

\* Date.date
ParseDate ==
  /\ dpc = "new"
  /\ dres' = DateOf(raw)
  /\ dpc' = "parsed"
  /\ UNCHANGED <<raw, fres, treeVars, placeVars, readVars, composeVars>>

\* format_date(Date)
FormatDate ==
  /\ dpc = "parsed"
  /\ fres' = format_date(raw)
  /\ dpc' = "formatted"
  /\ UNCHANGED <<raw, dres, treeVars, placeVars, readVars, composeVars>>

NextDate == ParseDate \/ FormatDate

SpecDate == InitDate /\ [][NextDate]_vars

\* The groups of the raw value.
HasDay == FormatMatch(raw).day /= <<>>
HasMonth == FormatMatch(raw).month /= <<>>

\* C5: a raw date with a day but no month, or a month but no day, makes
\* Date.date raise instead of returning a date.
C5_PartialDateRejected ==
  (dpc /= "new" /\ FormatMatch(raw).matched /\ HasDay /= HasMonth)
    => dres.kind \in {"AssertionError", "ValueError"}

\* C6: format_date gives the bare year exactly for the year-only raw values;
\* every full date, 1 JAN included, goes through the locale formatter.
C6_BareYearIffYearOnly ==
  (dpc = "formatted" /\ fres.kind \in {"year", "babel"} /\ HasDay = HasMonth)
    => (fres.kind = "year" <=> ~HasDay)

----------------------------------------------------------------------------
\* place_image.  A float is modelled by the fraction <<n, d>> (d > 0) it equals;
\* every division and multiplication rounds its exact result to the nearest
\* float, ties to even, as IEEE 754 arithmetic does.  The floats of the model
\* have a mantissa of MantissaBits bits (Python's have 53); the magnitudes that
\* occur are far from overflow and underflow, which are not modelled.

MantissaBits == 5

RECURSIVE Pow2(_)
Pow2(k) == IF k = 0 THEN 1 ELSE 2 * Pow2(k - 1)

Frac(n) == <<n, 1>>
FMul(a, b) == <<a[1] * b[1], a[2] * b[2]>>
\* a / b for b > 0
FDiv(a, b) == <<a[1] * b[2], a[2] * b[1]>>
FLeq(a, b) == a[1] * b[2] <= b[1] * a[2]
FEq(a, b) == a[1] * b[2] = b[1] * a[2]

\* The float nearest to the fraction q > 0: q = x * 2^e with x in
\* [2^(MantissaBits-1), 2^MantissaBits), x rounded to an integer, ties to even.
Round(q) ==
  LET lo == Pow2(MantissaBits - 1)
      hi == Pow2(MantissaBits)
      Scaled(e) == IF e >= 0 THEN <<q[1], q[2] * Pow2(e)>>
                   ELSE <<q[1] * Pow2(-e), q[2]>>
      e == CHOOSE x \in (-(MantissaBits + 8))..(MantissaBits + 8) :
             /\ Scaled(x)[1] >= lo * Scaled(x)[2]
             /\ Scaled(x)[1] < hi * Scaled(x)[2]
      N == Scaled(e)[1]
      D == Scaled(e)[2]
      m0 == N \div D
      rem == N % D
      m == IF 2 * rem > D \/ (2 * rem = D /\ m0 % 2 = 1) THEN m0 + 1 ELSE m0
  IN IF e >= 0 THEN <<m * Pow2(e), 1>> ELSE <<m, Pow2(-e)>>

\* float * float and float / float (also int / int, which Python rounds
\* correctly)
FlMul(a, b) == Round(FMul(a, b))
FlDiv(a, b) == Round(FDiv(a, b))

\* The test of line 323 taken as always true: the width bound alone decides.
FitsWidthAlways(max_width, ratio, max_height) == TRUE

\* Line 323: max_width * ratio <= max_height
FitsWidth(max_width, ratio, max_height) == FLeq(FlMul(max_width, ratio), max_height)

\* place_image(width, height, max_width, max_height), the pixel sizes integers,
\* the bounds floats.
place_image(width, height, max_width, max_height) ==
  LET rotate == width > height
      w == IF rotate THEN height ELSE width
      h == IF rotate THEN width ELSE height
  IN IF w = 0
       THEN [kind |-> "ZeroDivisionError", rotate |-> rotate, width |-> Frac(0),
             height |-> Frac(0)]
     ELSE LET ratio == FlDiv(Frac(h), Frac(w)) IN
       IF FitsWidth(max_width, ratio, max_height)
         THEN [kind |-> "ok", rotate |-> rotate, width |-> max_width,
               height |-> FlMul(max_width, ratio)]
         ELSE [kind |-> "ok", rotate |-> rotate, width |-> FlDiv(max_height, ratio),
               height |-> max_height]

MaxPix == 7
MaxBox == 9

InitPlace ==
  /\ dims \in (1..MaxPix) \X (1..MaxPix) \X (1..MaxBox) \X (1..MaxBox)
  /\ placed = <<>>
  /\ ppc = "new"
  /\ IdleTree /\ IdleDate /\ IdleRead /\ IdleCompose

PlaceImage ==
  /\ ppc = "new"
  /\ placed' = place_image(dims[1], dims[2], Frac(dims[3]), Frac(dims[4]))
  /\ ppc' = "done"
  /\ UNCHANGED <<dims, treeVars, dateVars, readVars, composeVars>>

NextPlace == PlaceImage

SpecPlace == InitPlace /\ [][NextPlace]_vars

Max(a, b) == IF a >= b THEN a ELSE b
Min(a, b) == IF a <= b THEN a ELSE b

\* The ratio max(w, h) / min(w, h) of the source image.
SourceRatio == <<Max(dims[1], dims[2]), Min(dims[1], dims[2])>>
\* placed height / placed width, as a fraction
PlacedRatio == FDiv(placed.height, placed.width)

\* The parts of C7 that do not involve the ratio: rotation exactly when w > h,
\* both bounds respected, one of them tight.
PlacedInBox ==
  /\ placed.kind = "ok"
  /\ placed.rotate = (dims[1] > dims[2])
  /\ FLeq(placed.width, Frac(dims[3]))
  /\ FLeq(placed.height, Frac(dims[4]))
  /\ (FEq(placed.width, Frac(dims[3])) \/ FEq(placed.height, Frac(dims[4])))

\* C7 as stated: for positive w, h, W, H the result is rotated exactly when
\* w > h, lies within both bounds, touches one of them, and its height / width is
\* max(w, h) / min(w, h) -- both quotients computed as Python computes them, which
\* is implied by their being equal as real numbers.
C7_ExactRatio ==
  ppc = "done" =>
    /\ PlacedInBox
    /\ FEq(FlDiv(placed.height, placed.width),
           FlDiv(Frac(SourceRatio[1]), Frac(SourceRatio[2])))

\* C7 as amended: as above, but height / width equals max(w, h) / min(w, h) up to
\* the rounding of the two float operations that produce it, a relative error of
\* at most 3 * 2^(-MantissaBits).
C7_RatioWithinRounding ==
  ppc = "done" =>
    /\ PlacedInBox
    /\ LET tol == <<3, Pow2(MantissaBits)>>
           err == FMul(SourceRatio, tol)
           diff == <<PlacedRatio[1] * SourceRatio[2] - SourceRatio[1] * PlacedRatio[2],
                     PlacedRatio[2] * SourceRatio[2]>>
       IN /\ FLeq(diff, err)
          /\ FLeq(<<-diff[1], diff[2]>>, err)

\* A rotated, height-constrained placement whose ratio was rounded.
C7_Witness ==
  /\ ppc = "done"
  /\ dims[1] > dims[2]
  /\ placed.rotate
  /\ FEq(placed.height, Frac(dims[4]))
  /\ ~FEq(placed.width, Frac(dims[3]))
  /\ ~FEq(PlacedRatio, SourceRatio)

----------------------------------------------------------------------------
\* Tree.read

TAB == 9
NL == 10
CR == 13
AT == 64
HYPHEN == 45
UNDERSCORE == 95
BACKSLASH == 92
Chn == 110

\* The white space str.strip() removes, on the characters of the inputs.
IsBlank(c) == c \in {SP, TAB, NL, CR}

\* line.strip()
RECURSIVE Strip(_)
Strip(s) ==
  IF s = <<>> THEN s
  ELSE IF IsBlank(s[1]) THEN Strip(Tail(s))
  ELSE IF IsBlank(s[Len(s)]) THEN Strip(SubSeq(s, 1, Len(s) - 1))
  ELSE s

IsLower(c) == c \in 97..122
\* [-a-zA-Z0-9] and [_A-Z0-9]
IsIdChar(c) == c = HYPHEN \/ IsLower(c) \/ IsUpper(c) \/ IsDigit(c)
IsTagChar(c) == c = UNDERSCORE \/ IsUpper(c) \/ IsDigit(c)

\* (?P<tag>[_A-Z0-9]+)( (?P<value>.*))?$ matches s from position p on.
TagMatchesAt(s, p) ==
  \E q \in p..Len(s) :
    /\ \A k \in p..q : IsTagChar(s[k])
    /\ (q = Len(s) \/ (s[q + 1] = SP /\ \A k \in (q + 2)..Len(s) : s[k] /= NL))

\* LINE_FORMAT.match(s)
LineMatches(s) ==
  /\ Len(s) >= 3
  /\ IsDigit(s[1])
  /\ s[2] = SP
  /\ \/ TagMatchesAt(s, 3)
     \/ /\ s[3] = AT
        /\ \E q \in 5..(Len(s) - 1) :
             /\ \A k \in 4..(q - 1) : IsIdChar(s[k])
             /\ s[q] = AT
             /\ s[q + 1] = SP
             /\ TagMatchesAt(s, q + 2)

\* sep.join(parts)
RECURSIVE Join(_, _)
Join(parts, sep) ==
  IF parts = <<>> THEN <<>>
  ELSE IF Len(parts) = 1 THEN parts[1]
  ELSE Join(SubSeq(parts, 1, Len(parts) - 1), sep) \o sep \o parts[Len(parts)]

\* The line-break marker "\\n" (a backslash and an n) and the separator "\n".
Marker == <<BACKSLASH, Chn>>
Newline == <<NL>>

\* flush_block(): `lines` after the call
flush_block(ls, blk) == IF blk /= <<>> THEN Append(ls, Join(blk, Marker)) ELSE ls

MaxLines == 3

\* The lines of the inputs, as readlines() gives them:
\* 0 HEAD\n | 0 @I1@ INDI\n | 1 NOTE a\n |  b\n | \n | 1 note\n | 0 TRLR
RawLines ==
  { <<48, 32, 72, 69, 65, 68, 10>>,
    <<48, 32, 64, 73, 49, 64, 32, 73, 78, 68, 73, 10>>,
    <<49, 32, 78, 79, 84, 69, 32, 97, 10>>,
    <<32, 98, 10>>,
    <<10>>,
    <<49, 32, 110, 111, 116, 101, 10>>,
    <<48, 32, 84, 82, 76, 82>> }

InitRead ==
  /\ \E n \in 0..MaxLines : file \in [1..n -> RawLines]
  /\ pos = 0
  /\ block = <<>>
  /\ lines = <<>>
  /\ text = <<>>
  /\ rpc = "loop"
  /\ IdleTree /\ IdleDate /\ IdlePlace /\ IdleCompose

\* One turn of the loop of lines 263-269.
ReadLine ==
  /\ rpc = "loop"
  /\ pos < Len(file)
  /\ LET line == Strip(file[pos + 1]) IN
       IF LineMatches(line)
         THEN /\ lines' = flush_block(lines, block)
              /\ block' = <<line>>
         ELSE /\ block' = Append(block, line)
              /\ lines' = lines
  /\ pos' = pos + 1
  /\ UNCHANGED <<file, text, rpc, treeVars, dateVars, placeVars, composeVars>>

\* Line 270: the loop is over, the flushed entries are joined and parsed.
ReadReturn ==
  /\ rpc = "loop"
  /\ pos = Len(file)
  /\ text' = Join(lines, Newline)
  /\ rpc' = "done"
  /\ UNCHANGED <<file, pos, block, lines, treeVars, dateVars, placeVars, composeVars>>

NextRead == ReadLine \/ ReadReturn

SpecRead == InitRead /\ [][NextRead]_vars

\* The logical entries of the first n lines as C8 describes them: a matching line
\* starts an entry, any other line joins the entry of the closest matching line
\* before it.
RECURSIVE EntryBlocks(_)
EntryBlocks(n) ==
  IF n = 0 THEN <<>>
  ELSE LET prev == EntryBlocks(n - 1)
           line == Strip(file[n])
       IN IF LineMatches(line) \/ prev = <<>> THEN Append(prev, <<line>>)
          ELSE [prev EXCEPT ![Len(prev)] = Append(@, line)]

ExpectedEntries ==
  LET blocks == EntryBlocks(Len(file))
  IN [k \in 1..Len(blocks) |-> Join(blocks[k], Marker)]

\* C8: when the file starts with a matching line, the text handed to the record
\* parser holds every logical entry, the last one included, in input order.
C8_EveryEntryParsed ==
  (rpc = "done" /\ Len(file) > 0 /\ LineMatches(Strip(file[1])))
    => text = Join(ExpectedEntries, Newline)

----------------------------------------------------------------------------
\* tree_to_html / images_to_html

\* radius = 6, and the page of 21 by 29.7 (lines 333-334); the height 29.7 as
\* the fraction 297 / 10.
Radius == 6
PageWidth == 21
PageHeightTenths == 297

\* float - int for a float a and an integer n < a
FlSubInt(a, n) == Round(<<a[1] - n * a[2], a[2]>>)

\* 21 - radius and 29.7 - radius
MaxPlaceWidth == Frac(PageWidth - Radius)
MaxPlaceHeight == FlSubInt(Round(<<PageHeightTenths, 10>>), Radius)

\* What image.open() gives for an image of the roster: the pixel size, or an
\* exception (the fetch answers with a status other than 200, the connection
\* fails, the cached file is no image).
Opens ==
  { [ok |-> TRUE, size |-> <<1, 2>>],
    [ok |-> TRUE, size |-> <<2, 1>>],
    [ok |-> TRUE, size |-> <<0, 0>>],
    [ok |-> FALSE, size |-> <<0, 0>>] }

MaxImages == 2

\* The images of one individual: whether each has a note, and what opening it
\* gives.
ImageSeqs ==
  UNION { [1..k -> [note : BOOLEAN, open : Opens]] : k \in 0..MaxImages }

MaxRoster == 2

\* The serial build_individuals gave to image j of roster position p.
RECURSIVE ComposeSerial(_, _, _)
ComposeSerial(shape, p, j) ==
  IF p = 1 THEN j ELSE Len(shape[p - 1]) + ComposeSerial(shape, p - 1, j)

\* The roster of a built Tree, reduced to what the composer reads of it.
InitCompose ==
  /\ \E n \in 1..MaxRoster : \E shape \in [1..n -> ImageSeqs] :
       croster = [p \in 1..n |->
                    [images |-> [j \in 1..Len(shape[p]) |->
                       [serial |-> ComposeSerial(shape, p, j),
                        note |-> shape[p][j].note,
                        open |-> shape[p][j].open]]]]
  /\ cpc = "summaries"
  /\ ci = 1
  /\ cj = 0
  /\ summ = <<>>
  /\ pages = <<>>
  /\ cur = <<>>
  /\ IdleTree /\ IdleDate /\ IdlePlace /\ IdleRead

\* Line 365: individual_to_html for the next individual of the roster; after the
\* last one the image pages start (lines 366-370).
Summary ==
  /\ cpc = "summaries"
  /\ summ' = Append(summ, ci)
  /\ IF ci < Len(croster)
       THEN ci' = ci + 1 /\ cpc' = cpc
       ELSE ci' = 1 /\ cpc' = "images"
  /\ UNCHANGED <<croster, cj, pages, cur, treeVars, dateVars, placeVars, readVars>>

\* One turn of the loop of images_to_html (lines 331-360) for image cj + 1 of
\* individual ci.  An exception of image.open() or place_image is caught nowhere
\* and ends tree_to_html.
ImagePage ==
  /\ cpc = "images"
  /\ ci <= Len(croster)
  /\ cj < Len(croster[ci].images)
  /\ LET image == croster[ci].images[cj + 1]
         place == place_image(image.open.size[1], image.open.size[2],
                              MaxPlaceWidth, MaxPlaceHeight)
     IN IF ~image.open.ok \/ place.kind /= "ok"
          THEN cpc' = "aborted" /\ cur' = cur /\ cj' = cj
          ELSE /\ cpc' = cpc
               /\ cj' = cj + 1
               /\ cur' = IF image.note
                           THEN Append(cur, [serial |-> image.serial,
                                             rotate |-> place.rotate,
                                             width |-> place.width,
                                             height |-> place.height])
                           ELSE cur
  /\ UNCHANGED <<croster, ci, summ, pages, treeVars, dateVars, placeVars, readVars>>

\* Line 361: images_to_html returns the blocks of the individual.
ImagesReturn ==
  /\ cpc = "images"
  /\ ci <= Len(croster)
  /\ cj = Len(croster[ci].images)
  /\ pages' = pages \o cur
  /\ cur' = <<>>
  /\ ci' = ci + 1
  /\ cj' = 0
  /\ UNCHANGED <<croster, cpc, summ, treeVars, dateVars, placeVars, readVars>>

\* Lines 371-420: the document is put together and returned.
ComposeReturn ==
  /\ cpc = "images"
  /\ ci > Len(croster)
  /\ cpc' = "done"
  /\ UNCHANGED <<croster, ci, cj, summ, pages, cur, treeVars, dateVars, placeVars,
                 readVars>>

NextCompose == Summary \/ ImagePage \/ ImagesReturn \/ ComposeReturn

SpecCompose == InitCompose /\ [][NextCompose]_vars

\* An image of the roster that cannot be opened or placed.
ImageFails(image) == ~image.open.ok \/ image.open.size[1] = 0 \/ image.open.size[2] = 0

\* The serials of the images that can be opened and placed and have a note.
RECURSIVE GoodSerials(_, _)
GoodSerials(p, j) ==
  IF p = 0 THEN <<>>
  ELSE IF j = 0
    THEN (IF p = 1 THEN <<>> ELSE GoodSerials(p - 1, Len(croster[p - 1].images)))
  ELSE GoodSerials(p, j - 1) \o
       (IF ~ImageFails(croster[p].images[j]) /\ croster[p].images[j].note
          THEN <<croster[p].images[j].serial>> ELSE <<>>)

\* C9: the composition is never aborted by the failure of an image, and the
\* finished document holds the summary of every individual and the page of every
\* image that did not fail.
C9_ImageFailureIsLocal ==
  /\ cpc /= "aborted"
  /\ cpc = "done" =>
       /\ summ = [p \in 1..Len(croster) |-> p]
       /\ [k \in 1..Len(pages) |-> pages[k].serial]
            = GoodSerials(Len(croster), Len(croster[Len(croster)].images))

====
